---- MODULE Spec2Model ----
(***************************************************************************)
(* Model of the offline RAG chatbot: the NomicVectorStore (FAISS flat L2   *)
(* index with a parallel metadata list, persisted as two files), and the   *)
(* Flask handlers of app.py that ingest documents into it and answer       *)
(* queries from it.                                                        *)
(*                                                                         *)
(* A vector is kept as the record [n, x]: n is its number of components,   *)
(* x its first component; every other component is zero.  Distances,       *)
(* padding and truncation are computed on that representation.             *)
(***************************************************************************)
EXTENDS Integers, Sequences, FiniteSets, TLC

\* ------------------------------------------------------------ bounds
\* most entries one store ever holds in the model
MaxEntries == 2
\* most files one ingest request or one directory listing holds
MaxFiles == 2
\* sentences in a text given to the chunker
MaxSentences == 3

\* ------------------------------------------------- program constants
Dimension == 768
RETRIEVAL_TOP_K == 15
CHUNK_SIZE == 1000
CHUNK_OVERLAP == 200
MAX_HISTORY == 5

\* --------------------------------------------------------- inputs
Texts == {"t1", "t2"}
\* the documents, and the chunk list each one yields
Sources == {"a.txt", "b.txt", "empty.txt"}
DocChunks(source) ==
    IF source = "a.txt" THEN <<"t1", "t2">>
    ELSE IF source = "b.txt" THEN <<"t2">>
    ELSE <<>>
\* the k arguments of search: None (the default) or an integer
KArgs == {[isNone |-> TRUE, val |-> 0]}
           \cup {[isNone |-> FALSE, val |-> v] : v \in {0, 1, 2}}
\* the answers of the embedding service to one request: a failure
\* (connection error, non-200 status, malformed body) or an embedding of
\* some length
Responses == {[ok |-> FALSE, n |-> 0]}
               \cup {[ok |-> TRUE, n |-> d] :
                       d \in {Dimension, Dimension - 1, Dimension + 1, 0}}

Min(a, b) == IF a < b THEN a ELSE b

\* the first component of the embedding the model computes for a text
Code(text) == IF text = "t1" THEN 1 ELSE 2

\* ------------------------------------------------ embedding gateway
Zeros(n) == [n |-> n, x |-> 0]

\* _get_embedding: the service's vector, or the zero vector of the store
\* dimension on any failure
GetEmbedding(text, resp) ==
    IF resp.ok
    THEN [n |-> resp.n, x |-> IF resp.n = 0 THEN 0 ELSE Code(text)]
    ELSE Zeros(Dimension)

\* _get_embeddings_batch: one vector per text, in input order
GetEmbeddingsBatch(texts, resps) ==
    [i \in 1..Len(texts) |-> GetEmbedding(texts[i], resps[i])]

\* np.array(embeddings, dtype='float32') raises on rows of unequal length
Ragged(vectors) ==
    \E i, j \in 1..Len(vectors) : vectors[i].n # vectors[j].n

\* add_documents, "Ensure correct dimensions": pad with zeros or truncate
NormalizeDim(vectors) ==
    IF vectors[1].n # Dimension
    THEN [i \in 1..Len(vectors) |-> [n |-> Dimension, x |-> vectors[i].x]]
    ELSE vectors

\* ------------------------------------------------------ the store
\* NomicVectorStore.__init__: an empty index and an empty metadata list
NewStore == [index |-> <<>>, metadata |-> <<>>]

\* a faulty variant: the last vector of the batch is not added
IndexAdd_DropLast(index, vectors) ==
    index \o SubSeq(vectors, 1, Len(vectors) - 1)

\* a faulty variant: the new vectors are put before the existing ones
IndexAdd_Prepend(index, vectors) == vectors \o index

\* self.index.add(vectors)
IndexAdd(index, vectors) == index \o vectors

\* the metadata record of the i-th chunk (enumerate counts from 0)
MetaRecord(chunk, source, i) ==
    [text |-> chunk, source |-> source, chunk_id |-> i - 1]

\* the loop of self.metadata.append over enumerate(chunks)
MetaAppendAll(metadata, chunks, source) ==
    metadata \o [i \in 1..Len(chunks) |-> MetaRecord(chunks[i], source, i)]

\* add_documents as one call: "noop" for an empty chunk list, "raise" when
\* the batch cannot be made an array (nothing is changed), else "ok"
AddDocumentsRet(chunks, resps) ==
    IF chunks = <<>> THEN "noop"
    ELSE IF Ragged(GetEmbeddingsBatch(chunks, resps)) THEN "raise"
    ELSE "ok"

AddDocuments(store, chunks, source, resps) ==
    IF AddDocumentsRet(chunks, resps) # "ok" THEN store
    ELSE [index |-> IndexAdd(store.index,
                        NormalizeDim(GetEmbeddingsBatch(chunks, resps))),
          metadata |-> MetaAppendAll(store.metadata, chunks, source)]

\* a faulty variant: only the index is renewed
Clear_KeepMetadata(store) == [index |-> <<>>, metadata |-> store.metadata]

\* clear: a new index and a new metadata list
Clear(store) == [index |-> <<>>, metadata |-> <<>>]

\* get_stats
GetStats(store) ==
    [total_vectors |-> Len(store.index),
     total_chunks |-> Len(store.metadata),
     sources |-> {store.metadata[i].source : i \in 1..Len(store.metadata)}]

\* ---------------------------------------------------------- search
\* squared L2 distance of two vectors of the store dimension
L2Sqr(a, b) == (a.x - b.x) * (a.x - b.x)

\* (distance, position) order of the flat index: nearer first, and at
\* equal distance the lower position first
HitBefore(h1, h2) ==
    \/ h1.dist < h2.dist
    \/ (h1.dist = h2.dist /\ h1.idx < h2.idx)

RECURSIVE SelectNearest(_, _)
SelectNearest(cands, k) ==
    IF k = 0 \/ cands = {} THEN <<>>
    ELSE LET best == CHOOSE h \in cands :
                        \A o \in cands \ {h} : HitBefore(h, o)
         IN  <<best>> \o SelectNearest(cands \ {best}, k - 1)

\* a faulty variant: ties are resolved towards the later position
RECURSIVE SelectNearest_LaterFirst(_, _)
SelectNearest_LaterFirst(cands, k) ==
    IF k = 0 \/ cands = {} THEN <<>>
    ELSE LET best == CHOOSE h \in cands :
                        \A o \in cands \ {h} :
                            \/ h.dist < o.dist
                            \/ (h.dist = o.dist /\ h.idx > o.idx)
         IN  <<best>> \o SelectNearest_LaterFirst(cands \ {best}, k - 1)

FlatL2Search_LaterFirst(index, qv, k) ==
    IF qv.n # Dimension \/ k <= 0
    THEN [ok |-> FALSE, hits |-> <<>>]
    ELSE [ok |-> TRUE,
          hits |-> SelectNearest_LaterFirst(
                     {[dist |-> L2Sqr(index[p], qv), idx |-> p - 1] :
                        p \in 1..Len(index)}, k)]

\* self.index.search(query_vector, k): FAISS asserts the query has the
\* index dimension and k > 0, then returns the k nearest rows with their
\* 0-based positions
FlatL2Search(index, qv, k) ==
    IF qv.n # Dimension \/ k <= 0
    THEN [ok |-> FALSE, hits |-> <<>>]
    ELSE [ok |-> TRUE,
          hits |-> SelectNearest(
                     {[dist |-> L2Sqr(index[p], qv), idx |-> p - 1] :
                        p \in 1..Len(index)}, k)]

\* "Prepare results": the metadata at each returned position, with the
\* distance as score; a position beyond the metadata list is dropped
RECURSIVE CollectResults(_, _)
CollectResults(metadata, hits) ==
    IF hits = <<>> THEN <<>>
    ELSE LET h == Head(hits)
         IN  (IF h.idx < Len(metadata)
              THEN <<[text |-> metadata[h.idx + 1].text,
                      source |-> metadata[h.idx + 1].source,
                      chunk_id |-> metadata[h.idx + 1].chunk_id,
                      score |-> h.dist]>>
              ELSE <<>>)
             \o CollectResults(metadata, Tail(hits))

\* k = self.top_k when None, then min(k, ntotal)
SearchK(karg, ntotal) ==
    Min(IF karg.isNone THEN RETRIEVAL_TOP_K ELSE karg.val, ntotal)

NoSearch == [ret |-> "none", hits |-> <<>>, results |-> <<>>, calls |-> 0]

\* a faulty variant: the query is embedded before the emptiness check
Search_EmbedFirst(store, query, karg, resp) ==
    IF Len(store.index) = 0
    THEN [ret |-> "ok", hits |-> <<>>, results |-> <<>>, calls |-> 1]
    ELSE LET found == FlatL2Search(store.index, GetEmbedding(query, resp),
                                   SearchK(karg, Len(store.index)))
         IN  IF found.ok
             THEN [ret |-> "ok", hits |-> found.hits,
                   results |-> CollectResults(store.metadata, found.hits),
                   calls |-> 1]
             ELSE [ret |-> "raise", hits |-> <<>>, results |-> <<>>,
                   calls |-> 1]

\* search as one call: its return value, the (distance, position) pairs
\* FAISS gave, and the number of embedding requests made
Search(store, query, karg, resp) ==
    IF Len(store.index) = 0
    THEN [ret |-> "ok", hits |-> <<>>, results |-> <<>>, calls |-> 0]
    ELSE LET found == FlatL2Search(store.index, GetEmbedding(query, resp),
                                   SearchK(karg, Len(store.index)))
         IN  IF found.ok
             THEN [ret |-> "ok", hits |-> found.hits,
                   results |-> CollectResults(store.metadata, found.hits),
                   calls |-> 1]
             ELSE [ret |-> "raise", hits |-> <<>>, results |-> <<>>,
                   calls |-> 1]

\* ----------------------------------------------------- persistence
NoIndexFile == [exists |-> FALSE, d |-> 0, ntotal |-> 0, xb |-> <<>>]
NoMetaFile == [exists |-> FALSE, recs |-> <<>>]

\* faiss.write_index: the header (d, ntotal) and the rows, in order
WriteIndex(index) ==
    [exists |-> TRUE, d |-> Dimension, ntotal |-> Len(index),
     xb |-> [i \in 1..Len(index) |-> index[i].x]]

\* a faulty variant: the rows come back in reverse order
ReadIndex_Reversed(file) ==
    [i \in 1..file.ntotal |-> [n |-> file.d, x |-> file.xb[file.ntotal + 1 - i]]]

\* faiss.read_index
ReadIndex(file) ==
    [i \in 1..file.ntotal |-> [n |-> file.d, x |-> file.xb[i]]]

\* pickle.dump(self.metadata): the records as tuples, in list order
PickleDump(metadata) ==
    [exists |-> TRUE,
     recs |-> [i \in 1..Len(metadata) |->
                 <<metadata[i].text, metadata[i].source, metadata[i].chunk_id>>]]

\* pickle.load
PickleLoad(file) ==
    [i \in 1..Len(file.recs) |->
       [text |-> file.recs[i][1], source |-> file.recs[i][2],
        chunk_id |-> file.recs[i][3]]]

\* load: False, and nothing read, unless both files exist
LoadRet(ixfile, mdfile) == ixfile.exists /\ mdfile.exists

Load(store, ixfile, mdfile) ==
    IF LoadRet(ixfile, mdfile)
    THEN [index |-> ReadIndex(ixfile), metadata |-> PickleLoad(mdfile)]
    ELSE store

\* ============================================================ state
\* ------------------------------------------------------- chunker
\* A text is the sequence of its characters.
IsSpace(c) == c = " "
IsEnd(c) == c \in {".", "!", "?"}

\* the first position from i on that holds no space
SkipSpaces(text, i) ==
    IF \E j \in i..Len(text) : ~IsSpace(text[j])
    THEN CHOOSE j \in i..Len(text) :
           /\ ~IsSpace(text[j])
           /\ \A m \in i..(j - 1) : IsSpace(text[m])
    ELSE Len(text) + 1

\* re.split(r'(?<=[.!?])\s+', text): cut at every run of spaces that
\* follows a sentence end; the runs are dropped
RECURSIVE SplitSentences(_)
SplitSentences(text) ==
    LET cuts == {i \in 2..Len(text) : IsSpace(text[i]) /\ IsEnd(text[i - 1])}
    IN  IF cuts = {} THEN <<text>>
        ELSE LET i == CHOOSE c \in cuts : \A d \in cuts : c <= d
             IN  <<SubSeq(text, 1, i - 1)>>
                 \o SplitSentences(SubSeq(text, SkipSpaces(text, i),
                                          Len(text)))

\* str.strip()
RECURSIVE Strip(_)
Strip(str) ==
    IF str = <<>> THEN <<>>
    ELSE IF IsSpace(Head(str)) THEN Strip(Tail(str))
    ELSE IF IsSpace(str[Len(str)]) THEN Strip(SubSeq(str, 1, Len(str) - 1))
    ELSE str

\* str.split(): the runs of characters between spaces
RECURSIVE SplitWords(_)
SplitWords(str) ==
    LET from == SkipSpaces(str, 1)
    IN  IF from > Len(str) THEN <<>>
        ELSE LET spaces == {j \in from..Len(str) : IsSpace(str[j])}
                 to == IF spaces = {} THEN Len(str) + 1
                       ELSE CHOOSE j \in spaces : \A m \in spaces : j <= m
             IN  <<SubSeq(str, from, to - 1)>>
                 \o SplitWords(SubSeq(str, to, Len(str)))

\* " ".join(words)
RECURSIVE Join(_)
Join(words) ==
    IF words = <<>> THEN <<>>
    ELSE IF Len(words) = 1 THEN words[1]
    ELSE words[1] \o <<" ">> \o Join(Tail(words))

\* a faulty variant: the first n words are taken
OverlapWords_First(words, n) ==
    IF Len(words) > 10
    THEN SubSeq(words, 1, IF n = 0 \/ n > Len(words) THEN Len(words) ELSE n)
    ELSE <<>>

\* words[-n:] if len(words) > 10 else []; words[-0:] is every word
OverlapWords(words, n) ==
    IF Len(words) > 10
    THEN IF n = 0 \/ n >= Len(words) THEN words
         ELSE SubSeq(words, Len(words) - n + 1, Len(words))
    ELSE <<>>

\* a faulty variant: the sentence is left out of the new chunk
StartChunk_NoSentence(overlap_words, sentence) == Join(overlap_words)

\* " ".join(overlap_words) + " " + sentence
StartChunk(overlap_words, sentence) ==
    Join(overlap_words) \o <<" ">> \o sentence

\* a faulty variant: the last chunk is added without the test
LastChunk_Unchecked(chunks, current_chunk) ==
    Append(chunks, Strip(current_chunk))

\* "Add the last chunk"
LastChunk(chunks, current_chunk) ==
    IF Strip(current_chunk) # <<>>
    THEN Append(chunks, Strip(current_chunk))
    ELSE chunks

\* the loop of _chunk_text over the sentences from the i-th on
RECURSIVE ChunkLoop(_, _, _, _, _, _)
ChunkLoop(sentences, i, chunks, current_chunk, max_chars, overlap_chars) ==
    IF i > Len(sentences) THEN LastChunk(chunks, current_chunk)
    ELSE LET sentence == sentences[i]
         IN  IF Len(current_chunk) + Len(sentence) > max_chars
                /\ current_chunk # <<>>
             THEN ChunkLoop(sentences, i + 1,
                            Append(chunks, Strip(current_chunk)),
                            StartChunk(OverlapWords(SplitWords(current_chunk),
                                                    overlap_chars \div 5),
                                       sentence),
                            max_chars, overlap_chars)
             ELSE ChunkLoop(sentences, i + 1, chunks,
                            current_chunk \o <<" ">> \o sentence,
                            max_chars, overlap_chars)

\* _chunk_text(text, max_tokens) with config.CHUNK_OVERLAP = chunk_overlap
ChunkText(text, max_tokens, chunk_overlap) ==
    ChunkLoop(SplitSentences(text), 1, <<>>, <<>>,
              max_tokens * 4, chunk_overlap * 4)

\* the sentences the texts are made of: two short ones, one of eleven
\* words, one of a single long word
RECURSIVE Repeat(_, _)
Repeat(str, n) == IF n = 0 THEN <<>> ELSE str \o Repeat(str, n - 1)
SentencePool ==
    {<<"a", ".">>,
     <<"b", "b", "!">>,
     Repeat(<<"a", " ">>, 10) \o <<"b", "?">>,
     Repeat(<<"a">>, 12) \o <<".">>}
\* texts of one to n sentences, one space between two sentences
RECURSIVE TextsOf(_)
TextsOf(n) ==
    IF n = 1 THEN SentencePool
    ELSE TextsOf(n - 1)
         \cup {t \o <<" ">> \o q : t \in TextsOf(n - 1), q \in SentencePool}
\* the texts given to the chunker: the cleaned texts, and texts that are
\* empty, blank, unterminated, or have spaces around them
ChunkTexts ==
    TextsOf(MaxSentences)
    \cup {<<>>, <<" ">>, <<" ", " ">>, <<"a">>, <<"a", ".", " ">>,
          <<" ", "a", ".", " ", " ", "b">>}
MaxTokenArgs == {0, 1, 2, 6, 7, 12, CHUNK_SIZE}
ChunkOverlaps == {0, 2, 5, 15, CHUNK_OVERLAP}

VARIABLES
    heap,          \* the NomicVectorStore objects, by object number
    vector_store,  \* app.py's global: the number of the current store
    disk_index,    \* config.FAISS_INDEX_PATH
    disk_meta,     \* config.FAISS_METADATA_PATH
    out,           \* the last completed store call: arguments and outcome
    saved,         \* the store as it was at the last completed save
    since_clear,   \* "clear" from a clear until the store is refilled
    i_pc,          \* the /ingest handler: where it stands
    i_files,       \* the documents of its request, in request order
    i_results,     \* its results dict: the file names, in key order
    i_errors,      \* its errors list
    i_doc,         \* the key of results its loop of add_documents is at
    i_next,        \* the chunk whose metadata add_documents appends next
    q_pc,          \* the /chat handler: where it stands
    q_self,        \* the store object its search call is bound to
    q_k,           \* search's k after min(k, ntotal)
    q_hits,        \* the (distance, position) pairs FAISS returned
    q_docs,        \* retrieved_docs
    q_calls,       \* the requests it has sent to the Ollama service
    resp,          \* the response the last step sent, NoResp if none
    chunked,       \* the last call of the chunker: arguments and chunks
    conversation_history,  \* OfflineChatbot: the messages, oldest first
    chat_text      \* the prompt the last step formatted, <<>> if none

storeVars == <<heap, vector_store, disk_index, disk_meta, out, saved,
               since_clear>>
ingestVars == <<i_pc, i_files, i_results, i_errors, i_doc, i_next>>
chatVars == <<q_pc, q_self, q_k, q_hits, q_docs, q_calls>>
botVars == <<conversation_history, chat_text>>
vars == <<heap, vector_store, disk_index, disk_meta, out, saved,
          since_clear, i_pc, i_files, i_results, i_errors, i_doc, i_next,
          q_pc, q_self, q_k, q_hits, q_docs, q_calls, resp, chunked,
          conversation_history, chat_text>>

Objects == {1, 2}

NoOut == [op |-> "none", ret |-> "none", karg |-> [isNone |-> TRUE, val |-> 0],
          qv |-> Zeros(0), hits |-> <<>>, results |-> <<>>, calls |-> 0,
          chunks |-> <<>>, resps |-> <<>>]
NoCalls == [health |-> 0, embed |-> 0, generate |-> 0]
\* a response: the route, the HTTP status and the fields of its JSON body;
\* calls are the requests its handler sent to the Ollama service, request
\* the documents of the ingest request it answers
NoResp == [route |-> "none", status |-> 0, error |-> "", answer |-> "",
           sources |-> <<>>, files |-> <<>>, total_chunks |-> 0,
           warnings |-> <<>>, calls |-> NoCalls, request |-> <<>>]

\* no call of the chunker yet
NoChunked == [called |-> FALSE, text |-> <<>>, max_tokens |-> 0,
              chunk_overlap |-> 0, chunks |-> <<>>]

\* the server after start-up, with no file saved yet
InitServer ==
    /\ heap = [o \in Objects |-> NewStore]
    /\ vector_store = 1
    /\ disk_index = NoIndexFile
    /\ disk_meta = NoMetaFile
    /\ out = NoOut
    /\ saved = [valid |-> FALSE, store |-> NewStore]
    /\ since_clear = "none"
    /\ i_pc = "idle"
    /\ i_files = <<>>
    /\ i_results = <<>>
    /\ i_errors = <<>>
    /\ i_doc = 0
    /\ i_next = 0
    /\ q_pc = "idle"
    /\ q_self = 0
    /\ q_k = 0
    /\ q_hits = <<>>
    /\ q_docs = <<>>
    /\ q_calls = NoCalls
    /\ resp = NoResp

\* OfflineChatbot.__init__: no message yet, nothing formatted
InitChatbot ==
    /\ conversation_history = <<>>
    /\ chat_text = <<>>

Init == InitServer /\ chunked = NoChunked /\ InitChatbot

Store == heap[vector_store]

\* ------------------------------------------- calls on the store
\* store.add_documents(chunks, source)
DoAdd ==
    \E source \in Sources :
      \E resps \in [1..Len(DocChunks(source)) -> Responses] :
       LET chunks == DocChunks(source) IN
        /\ AddDocumentsRet(chunks, resps) = "ok" =>
               /\ Len(Store.index) + Len(chunks) <= MaxEntries
               /\ Len(Store.metadata) + Len(chunks) <= MaxEntries
        /\ heap' = [heap EXCEPT ![vector_store] =
                      AddDocuments(Store, chunks, source, resps)]
        /\ out' = [NoOut EXCEPT !.op = "add",
                                !.ret = AddDocumentsRet(chunks, resps),
                                !.chunks = chunks, !.resps = resps]
        /\ since_clear' = IF AddDocumentsRet(chunks, resps) = "ok"
                          THEN "none" ELSE since_clear
        /\ UNCHANGED <<vector_store, disk_index, disk_meta, saved>>
        /\ UNCHANGED <<ingestVars, chatVars, resp, chunked, botVars>>

\* store.clear()
DoClear ==
    /\ heap' = [heap EXCEPT ![vector_store] = Clear(Store)]
    /\ out' = [NoOut EXCEPT !.op = "clear", !.ret = "ok"]
    /\ since_clear' = "clear"
    /\ UNCHANGED <<vector_store, disk_index, disk_meta, saved>>
    /\ UNCHANGED <<ingestVars, chatVars, resp, chunked, botVars>>

\* store.search(query, k)
DoSearch ==
    \E query \in Texts, karg \in KArgs, reply \in Responses :
      LET r == Search(Store, query, karg, reply)
      IN  /\ out' = [NoOut EXCEPT !.op = "search", !.ret = r.ret,
                                  !.karg = karg,
                                  !.qv = GetEmbedding(query, reply),
                                  !.hits = r.hits, !.results = r.results,
                                  !.calls = r.calls]
          /\ UNCHANGED <<heap, vector_store, disk_index, disk_meta, saved,
                         since_clear>>
          /\ UNCHANGED <<ingestVars, chatVars, resp, chunked, botVars>>

\* store.save(): both files written
DoSave ==
    /\ disk_index' = WriteIndex(Store.index)
    /\ disk_meta' = PickleDump(Store.metadata)
    /\ saved' = [valid |-> TRUE, store |-> Store]
    /\ out' = [NoOut EXCEPT !.op = "save", !.ret = "ok"]
    /\ UNCHANGED <<heap, vector_store, since_clear>>
    /\ UNCHANGED <<ingestVars, chatVars, resp, chunked, botVars>>

\* store.save() when opening or writing the metadata file raises: the
\* index file is already written
DoSaveFail ==
    /\ disk_index' = WriteIndex(Store.index)
    /\ saved' = [valid |-> FALSE, store |-> NewStore]
    /\ out' = [NoOut EXCEPT !.op = "save", !.ret = "raise"]
    /\ UNCHANGED <<heap, vector_store, disk_meta, since_clear>>
    /\ UNCHANGED <<ingestVars, chatVars, resp, chunked, botVars>>

\* store.load()
DoLoad ==
    /\ heap' = [heap EXCEPT ![vector_store] =
                  Load(Store, disk_index, disk_meta)]
    /\ out' = [NoOut EXCEPT !.op = "load",
                 !.ret = IF LoadRet(disk_index, disk_meta)
                         THEN "true" ELSE "false"]
    /\ since_clear' = IF since_clear = "clear"
                         /\ LoadRet(disk_index, disk_meta)
                      THEN "load" ELSE since_clear
    /\ UNCHANGED <<vector_store, disk_index, disk_meta, saved>>
    /\ UNCHANGED <<ingestVars, chatVars, resp, chunked, botVars>>

StoreNext ==
    \/ DoAdd
    \/ DoClear
    \/ DoSave
    \/ DoSaveFail
    \/ DoLoad

\* the sequences of add_documents, clear, save and load calls on one store,
\* a save being able to fail between its two files
StoreSpec == Init /\ [][StoreNext]_vars

SearchNext ==
    \/ DoAdd
    \/ DoClear
    \/ DoSearch

\* the sequences of add_documents, clear and search calls on a new store
SearchSpec == Init /\ [][SearchNext]_vars

ReloadNext ==
    \/ DoAdd
    \/ DoClear
    \/ DoSearch
    \/ DoSave
    \/ DoLoad

\* the sequences of add_documents, clear, search, save and load calls
ReloadSpec == Init /\ [][ReloadNext]_vars

\* ======================================================= app.py
\* the files an upload or the documents directory can hold; bad.docx is a
\* file whose extraction raises
UploadNames == {"a.txt", "b.txt", "empty.txt", "bad.docx"}
Readable(name) == name # "bad.docx"
ChatQueries == {"", "t1"}
\* the answers of the embedding service while a document is ingested
IngestResponses == {[ok |-> TRUE, n |-> Dimension],
                    [ok |-> TRUE, n |-> Dimension - 1]}
\* the outcomes of the generation request: a text, a text with white space
\* around it, a timeout, no connection
GenOutcomes == {"text", "padded", "timeout", "unreachable"}

RECURSIVE SeqsUpTo(_, _)
SeqsUpTo(S, n) ==
    IF n = 0 THEN {<<>>}
    ELSE LET shorter == SeqsUpTo(S, n - 1)
         IN  shorter \cup {Append(q, x) : q \in shorter, x \in S}

InSeq(x, q) == \E i \in 1..Len(q) : q[i] = x
Distinct(q) == \A i, j \in 1..Len(q) : i # j => q[i] # q[j]

\* request.files.getlist('files') of an upload
FileLists == SeqsUpTo(UploadNames, MaxFiles) \ {<<>>}
\* directory.iterdir() of the documents directory, in the order it lists
DirListings == {q \in SeqsUpTo(UploadNames, MaxFiles) : Distinct(q)}

RECURSIVE TotalChunks(_)
TotalChunks(names) ==
    IF names = <<>> THEN 0
    ELSE Len(DocChunks(Head(names))) + TotalChunks(Tail(names))

\* results[filename] = chunks: a key already there keeps its place
DictPut(keys, name) == IF InSeq(name, keys) THEN keys ELSE Append(keys, name)

\* ingest, "Process uploaded files": the keys of results and the errors
RECURSIVE ProcessUploads(_, _, _)
ProcessUploads(files, results, errors) ==
    IF files = <<>> THEN [results |-> results, errors |-> errors]
    ELSE LET name == Head(files)
         IN  IF Readable(name) /\ DocChunks(name) # <<>>
             THEN ProcessUploads(Tail(files), DictPut(results, name), errors)
             ELSE ProcessUploads(Tail(files), results, Append(errors, name))

\* process_directory: one key per file that was read, in listing order; a
\* file whose extraction raises is left out
RECURSIVE ProcessDirectory(_)
ProcessDirectory(listing) ==
    IF listing = <<>> THEN <<>>
    ELSE (IF Readable(Head(listing)) THEN <<Head(listing)>> ELSE <<>>)
         \o ProcessDirectory(Tail(listing))

\* the objects still referenced: the global and a search call's self
Live(vs, qs) == {vs} \cup (IF qs = 0 THEN {} ELSE {qs})
Gc(h, live) == [o \in Objects |-> IF o \in live THEN h[o] ELSE NewStore]
Alloc(live) == CHOOSE o \in Objects \ live : \A p \in Objects \ live : o <= p

\* perform_rag, step 1: no vector in the index of the current store
RagIsEmpty_Never(store) == FALSE

RagIsEmpty(store) == Len(store.index) = 0

\* result.get('response', ''): the text the service generated
ResponseText(outcome) ==
    IF outcome = "padded" THEN " generated " ELSE "generated"

\* str.strip() on the texts of the service
StripText(text) == IF text = " generated " THEN "generated" ELSE text

\* OllamaClient.generate: the stripped text, or the message of the except
\* branch taken
Generate(outcome) ==
    IF outcome \in {"text", "padded"}
    THEN StripText(ResponseText(outcome))
    ELSE IF outcome = "unreachable" THEN "Error: Cannot connect to Ollama"
    ELSE "Error: Request timed out"

\* perform_rag, step 5: the sources of the response
SourcesOf(docs) ==
    [i \in 1..Len(docs) |->
       [source |-> docs[i].source, chunk_id |-> docs[i].chunk_id,
        score |-> docs[i].score]]

IngestResp(status) == [NoResp EXCEPT !.route = "ingest", !.status = status]
ChatResp(status, calls) ==
    [NoResp EXCEPT !.route = "chat", !.status = status, !.calls = calls]

\* ----------------------------------------------------- /ingest
\* a request whose first file has no name: 400, "No files selected"
IngestNoFileSelected ==
    /\ i_pc = "idle"
    /\ resp' = IngestResp(400)
    /\ UNCHANGED <<storeVars, ingestVars, chatVars, chunked, botVars>>

\* a request with uploaded files: the global becomes a new empty store,
\* then the files are saved and processed
IngestUpload ==
    \E files \in FileLists :
      LET done == ProcessUploads(files, <<>>, <<>>)
          o == Alloc(IF q_self = 0 THEN {} ELSE {q_self})
      IN  /\ i_pc = "idle"
          /\ TotalChunks(done.results) <= MaxEntries
          /\ vector_store' = o
          /\ heap' = Gc([heap EXCEPT ![o] = NewStore], Live(o, q_self))
          /\ IF done.results = <<>>
             THEN /\ resp' = [IngestResp(400) EXCEPT !.warnings = done.errors,
                                               !.request = files]
                  /\ UNCHANGED <<i_pc, i_files, i_results, i_errors, i_doc>>
             ELSE /\ i_pc' = "add"
                  /\ i_files' = files
                  /\ i_results' = done.results
                  /\ i_errors' = done.errors
                  /\ i_doc' = 1
                  /\ resp' = NoResp
          /\ UNCHANGED <<i_next, disk_index, disk_meta, out, saved,
                         since_clear>>
          /\ UNCHANGED <<chatVars, chunked, botVars>>

\* a request without files: the documents directory is processed
IngestDirectory ==
    \E listing \in DirListings :
      LET results == ProcessDirectory(listing)
      IN  /\ i_pc = "idle"
          /\ Len(Store.index) + TotalChunks(results) <= MaxEntries
          /\ Len(Store.metadata) + TotalChunks(results) <= MaxEntries
          /\ IF results = <<>>
             THEN /\ resp' = [IngestResp(400) EXCEPT !.request = listing]
                  /\ UNCHANGED <<i_pc, i_files, i_results, i_doc>>
             ELSE /\ i_pc' = "add"
                  /\ i_files' = listing
                  /\ i_results' = results
                  /\ i_doc' = 1
                  /\ resp' = NoResp
          /\ UNCHANGED <<i_next, i_errors>>
          /\ UNCHANGED <<storeVars, chatVars, chunked, botVars>>

\* the handler's except branch: 500, "Ingestion failed"
IngestRaise ==
    /\ i_pc' = "idle"
    /\ i_files' = <<>>
    /\ i_results' = <<>>
    /\ i_errors' = <<>>
    /\ i_doc' = 0
    /\ i_next' = 0
    /\ resp' = IngestResp(500)

\* the loop over results.items() moves to the next key, or to save
IngestNextDoc ==
    /\ i_next' = 0
    /\ IF i_doc = Len(i_results)
       THEN i_pc' = "save" /\ i_doc' = 0
       ELSE i_pc' = "add" /\ i_doc' = i_doc + 1

\* vector_store.add_documents(chunks, source=filename), up to index.add
IngestAdd ==
    /\ i_pc = "add"
    /\ LET chunks == DocChunks(i_results[i_doc])
       IN  IF chunks = <<>>
           THEN /\ IngestNextDoc
                /\ UNCHANGED <<heap, i_files, i_results, i_errors>>
                /\ resp' = NoResp
           ELSE \E resps \in [1..Len(chunks) -> IngestResponses] :
                  LET vectors == GetEmbeddingsBatch(chunks, resps)
                  IN  IF Ragged(vectors)
                      THEN IngestRaise /\ UNCHANGED heap
                      ELSE /\ heap' = [heap EXCEPT ![vector_store].index =
                                         IndexAdd(@, NormalizeDim(vectors))]
                           /\ i_pc' = "meta"
                           /\ i_next' = 1
                           /\ UNCHANGED <<i_files, i_results, i_errors, i_doc>>
                           /\ resp' = NoResp
    /\ UNCHANGED <<vector_store, disk_index, disk_meta, out, saved,
                   since_clear>>
    /\ UNCHANGED <<chatVars, chunked, botVars>>

\* add_documents, "Store metadata": one append of the loop
IngestMeta ==
    /\ i_pc = "meta"
    /\ LET name == i_results[i_doc]
           chunks == DocChunks(name)
       IN  /\ heap' = [heap EXCEPT ![vector_store].metadata =
                         Append(@, MetaRecord(chunks[i_next], name, i_next))]
           /\ IF i_next = Len(chunks)
              THEN IngestNextDoc
              ELSE /\ i_next' = i_next + 1
                   /\ UNCHANGED <<i_pc, i_doc>>
    /\ UNCHANGED <<vector_store, disk_index, disk_meta, out, saved,
                   since_clear, i_files, i_results, i_errors>>
    /\ resp' = NoResp
    /\ UNCHANGED <<chatVars, chunked, botVars>>

\* vector_store.save(): faiss.write_index
IngestSaveIndex ==
    /\ i_pc = "save"
    /\ disk_index' = WriteIndex(Store.index)
    /\ i_pc' = "save_meta"
    /\ UNCHANGED <<heap, vector_store, disk_meta, out, saved, since_clear,
                   i_files, i_results, i_errors, i_doc, i_next>>
    /\ resp' = NoResp
    /\ UNCHANGED <<chatVars, chunked, botVars>>

\* vector_store.save(): the metadata file, then the success response
IngestSaveMeta ==
    /\ i_pc = "save_meta"
    /\ disk_meta' = PickleDump(Store.metadata)
    /\ resp' = [IngestResp(200) EXCEPT !.files = i_results,
                  !.total_chunks = TotalChunks(i_results),
                  !.warnings = i_errors, !.request = i_files]
    /\ i_pc' = "idle"
    /\ i_files' = <<>>
    /\ i_results' = <<>>
    /\ i_errors' = <<>>
    /\ UNCHANGED <<heap, vector_store, disk_index, out, saved, since_clear,
                   i_doc, i_next>>
    /\ UNCHANGED <<chatVars, chunked, botVars>>

\* vector_store.save() raises on the metadata file
IngestSaveRaise ==
    /\ i_pc = "save_meta"
    /\ IngestRaise
    /\ UNCHANGED <<storeVars, chatVars, chunked, botVars>>

\* ------------------------------------------------------- /chat
\* the handler returns: its locals are gone, the old store it may have
\* held is released
ChatReturn(r) ==
    /\ resp' = r
    /\ q_pc' = "idle"
    /\ q_self' = 0
    /\ q_k' = 0
    /\ q_hits' = <<>>
    /\ q_docs' = <<>>
    /\ q_calls' = NoCalls
    /\ heap' = Gc(heap, Live(vector_store, 0))
    /\ UNCHANGED <<vector_store, disk_index, disk_meta, out, saved,
                   since_clear>>

\* chat: the checks of the query, then ollama_client.check_health()
ChatReceive ==
    \E query \in ChatQueries, healthy \in BOOLEAN :
      /\ q_pc = "idle"
      /\ IF query = ""
         THEN ChatReturn(ChatResp(400, NoCalls))
         ELSE IF ~healthy
         THEN ChatReturn(ChatResp(503, [NoCalls EXCEPT !.health = 1]))
         ELSE /\ q_pc' = "check"
              /\ q_calls' = [NoCalls EXCEPT !.health = 1]
              /\ UNCHANGED <<q_self, q_k, q_hits, q_docs>>
              /\ resp' = NoResp
              /\ UNCHANGED storeVars
      /\ UNCHANGED <<ingestVars, chunked, botVars>>

\* perform_rag: if vector_store.index.ntotal == 0
RagCheck ==
    /\ q_pc = "check"
    /\ IF RagIsEmpty(Store)
       THEN ChatReturn([ChatResp(200, q_calls) EXCEPT
                          !.error = "no_documents",
                          !.answer = "No documents have been indexed yet"])
       ELSE /\ q_pc' = "search"
            /\ UNCHANGED <<q_self, q_k, q_hits, q_docs, q_calls>>
            /\ resp' = NoResp
            /\ UNCHANGED storeVars
    /\ UNCHANGED <<ingestVars, chunked, botVars>>

\* perform_rag's answer to an empty retrieved_docs
NoResults(calls) ==
    [ChatResp(200, calls) EXCEPT !.error = "no_results",
                                 !.answer = "I don't have enough information"]

\* vector_store.search(query, k=config.RETRIEVAL_TOP_K): the call binds the
\* current store, returns [] when its index is empty, else computes k
RagSearchEnter ==
    /\ q_pc = "search"
    /\ IF Len(Store.index) = 0
       THEN ChatReturn(NoResults(q_calls))
       ELSE /\ q_self' = vector_store
            /\ q_k' = SearchK([isNone |-> FALSE, val |-> RETRIEVAL_TOP_K],
                              Len(Store.index))
            /\ q_pc' = "embed"
            /\ UNCHANGED <<q_hits, q_docs, q_calls>>
            /\ resp' = NoResp
            /\ UNCHANGED storeVars
    /\ UNCHANGED <<ingestVars, chunked, botVars>>

\* search: the query embedding and self.index.search; an assertion of FAISS
\* ends the request in chat's except branch
RagSearchIndex ==
    \E resp1 \in Responses :
      LET found == FlatL2Search(heap[q_self].index,
                                GetEmbedding("t1", resp1), q_k)
          calls == [q_calls EXCEPT !.embed = @ + 1]
      IN  /\ q_pc = "embed"
          /\ IF found.ok
             THEN /\ q_hits' = found.hits
                  /\ q_calls' = calls
                  /\ q_pc' = "collect"
                  /\ UNCHANGED <<q_self, q_k, q_docs>>
                  /\ resp' = NoResp
                  /\ UNCHANGED storeVars
             ELSE ChatReturn(ChatResp(500, calls))
          /\ UNCHANGED <<ingestVars, chunked, botVars>>

\* search, "Prepare results", and perform_rag's no_results branch
RagCollect ==
    /\ q_pc = "collect"
    /\ LET docs == CollectResults(heap[q_self].metadata, q_hits)
       IN  IF docs = <<>>
           THEN ChatReturn(NoResults(q_calls))
           ELSE /\ q_docs' = docs
                /\ q_pc' = "generate"
                /\ q_self' = 0
                /\ heap' = Gc(heap, Live(vector_store, 0))
                /\ UNCHANGED <<q_k, q_hits, q_calls>>
                /\ resp' = NoResp
                /\ UNCHANGED <<vector_store, disk_index, disk_meta, out,
                               saved, since_clear>>
    /\ UNCHANGED <<ingestVars, chunked, botVars>>

\* perform_rag, steps 4 and 5: ollama_client.generate and the response
RagGenerate ==
    \E outcome \in GenOutcomes :
      /\ q_pc = "generate"
      /\ ChatReturn([ChatResp(200, [q_calls EXCEPT !.generate = @ + 1])
                       EXCEPT !.answer = Generate(outcome),
                              !.sources = SourcesOf(q_docs)])
      /\ UNCHANGED <<ingestVars, chunked, botVars>>

\* ---------------------------------------------------- start-up
\* the process starts again: a new store, loaded when the index file exists
Restart ==
    /\ vector_store' = 1
    /\ heap' = [o \in Objects |->
                  IF o = 1 /\ disk_index.exists
                  THEN Load(NewStore, disk_index, disk_meta)
                  ELSE NewStore]
    /\ i_pc' = "idle"
    /\ i_files' = <<>>
    /\ i_results' = <<>>
    /\ i_errors' = <<>>
    /\ i_doc' = 0
    /\ i_next' = 0
    /\ q_pc' = "idle"
    /\ q_self' = 0
    /\ q_k' = 0
    /\ q_hits' = <<>>
    /\ q_docs' = <<>>
    /\ q_calls' = NoCalls
    /\ resp' = NoResp
    /\ UNCHANGED <<disk_index, disk_meta, out, saved, since_clear, chunked,
                   botVars>>

\* what GET /stats answers in the current state
StatsResponse == GetStats(Store)

Next ==
    \/ IngestNoFileSelected
    \/ IngestUpload
    \/ IngestDirectory
    \/ IngestAdd
    \/ IngestMeta
    \/ IngestSaveIndex
    \/ IngestSaveMeta
    \/ IngestSaveRaise
    \/ ChatReceive
    \/ RagCheck
    \/ RagSearchEnter
    \/ RagSearchIndex
    \/ RagCollect
    \/ RagGenerate
    \/ Restart

\* the server: one /ingest request and one /chat request at a time, each
\* in its own thread
Spec == Init /\ [][Next]_vars

\* queries answered while the store is filled and cleared by whole calls
ChatNext ==
    \/ DoAdd
    \/ DoClear
    \/ ChatReceive
    \/ RagCheck
    \/ RagSearchEnter
    \/ RagSearchIndex
    \/ RagCollect
    \/ RagGenerate

ChatSpec == Init /\ [][ChatNext]_vars

\* the server when its clients send one request at a time: a request is
\* handled to its response before the next is received, and the process
\* restarts only between requests
SeqNext ==
    \/ q_pc = "idle" /\ IngestNoFileSelected
    \/ q_pc = "idle" /\ IngestUpload
    \/ q_pc = "idle" /\ IngestDirectory
    \/ q_pc = "idle" /\ IngestAdd
    \/ q_pc = "idle" /\ IngestMeta
    \/ q_pc = "idle" /\ IngestSaveIndex
    \/ q_pc = "idle" /\ IngestSaveMeta
    \/ q_pc = "idle" /\ IngestSaveRaise
    \/ i_pc = "idle" /\ ChatReceive
    \/ i_pc = "idle" /\ RagCheck
    \/ i_pc = "idle" /\ RagSearchEnter
    \/ i_pc = "idle" /\ RagSearchIndex
    \/ i_pc = "idle" /\ RagCollect
    \/ i_pc = "idle" /\ RagGenerate
    \/ i_pc = "idle" /\ q_pc = "idle" /\ Restart

SeqSpec == Init /\ [][SeqNext]_vars

\* ---------------------------------------------------- chunking
\* the arguments of a call of processor._chunk_text(text, max_tokens)
ChunkInit ==
    /\ InitServer
    /\ InitChatbot
    /\ \E text \in ChunkTexts, max_tokens \in MaxTokenArgs,
          chunk_overlap \in ChunkOverlaps :
         chunked = [NoChunked EXCEPT !.text = text,
                                     !.max_tokens = max_tokens,
                                     !.chunk_overlap = chunk_overlap]

\* the call returns its chunks
DoChunk ==
    /\ ~chunked.called
    /\ chunked' = [chunked EXCEPT
                     !.called = TRUE,
                     !.chunks = ChunkText(chunked.text, chunked.max_tokens,
                                          chunked.chunk_overlap)]
    /\ UNCHANGED <<storeVars, ingestVars, chatVars, resp, botVars>>

ChunkSpec == ChunkInit /\ [][DoChunk]_vars

\* ------------------------------------------------- OfflineChatbot
\* what the user types at the prompt, and what the model replies
UserInputs == {"hi", "why"}
Replies == {"ok"}

UserMessage(content) == [role |-> "user", content |-> content]
AssistantMessage(content) == [role |-> "assistant", content |-> content]

\* a faulty variant: one message more than MAX_HISTORY * 2 is kept
RecentHistory_OneMore(history) ==
    IF Len(history) > MAX_HISTORY * 2 + 1
    THEN SubSeq(history, Len(history) - MAX_HISTORY * 2, Len(history))
    ELSE history

\* generate_response, "Keep only recent history": the last MAX_HISTORY * 2
\* messages of a longer history
RecentHistory(history) ==
    IF Len(history) > MAX_HISTORY * 2
    THEN SubSeq(history, Len(history) - MAX_HISTORY * 2 + 1, Len(history))
    ELSE history

\* _format_chat: one closed turn per message, "user" for a user message
\* and "model" for an assistant message, then the open turn of the model
FormatChat(history) ==
    [i \in 1..Len(history) |->
       [turn |-> IF history[i].role = "user" THEN "user" ELSE "model",
        content |-> history[i].content, closed |-> TRUE]]
    \o <<[turn |-> "model", content |-> "", closed |-> FALSE]>>

\* the messages of a prompt: its closed turns
MessagesOf(prompt) == SelectSeq(prompt, LAMBDA t : t.closed)

\* generate_response up to the prompt: the user message is appended, the
\* history is cut to the recent one and formatted
Prompted(user_input) ==
    RecentHistory(Append(conversation_history, UserMessage(user_input)))

\* generate_response returns: the reply is appended to the history
GenerateResponse ==
    \E user_input \in UserInputs, response \in Replies :
      /\ chat_text' = FormatChat(Prompted(user_input))
      /\ conversation_history' =
           Append(Prompted(user_input), AssistantMessage(response))
      /\ UNCHANGED <<storeVars, ingestVars, chatVars, resp, chunked>>

\* the tokenizer or model.generate raises: chat() prints the error and
\* reads the next input, the user message stays in the history
GenerateResponseRaises ==
    \E user_input \in UserInputs :
      /\ chat_text' = FormatChat(Prompted(user_input))
      /\ conversation_history' = Prompted(user_input)
      /\ UNCHANGED <<storeVars, ingestVars, chatVars, resp, chunked>>

\* reset_conversation (chat()'s 'reset' command)
ResetConversation ==
    /\ conversation_history' = <<>>
    /\ chat_text' = <<>>
    /\ UNCHANGED <<storeVars, ingestVars, chatVars, resp, chunked>>

ChatbotNext ==
    \/ GenerateResponse
    \/ GenerateResponseRaises
    \/ ResetConversation

ChatbotSpec == Init /\ [][ChatbotNext]_vars

\* =========================================================== claims
\* the k a search call works with before min(k, ntotal)
EffectiveK(karg) == IF karg.isNone THEN RETRIEVAL_TOP_K ELSE karg.val

\* C1: after every completed add_documents call (also one that raised)
\* and every completed clear call on a new store, the index holds as many
\* vectors as the metadata list holds records.
C1_IndexMetadataParity ==
    Len(Store.index) = Len(Store.metadata)

\* C1's case: an add_documents call has raised on a store that already
\* holds entries
C1_Witness ==
    /\ out.op = "add"
    /\ out.ret = "raise"
    /\ Len(Store.index) > 0

\* C5 as claimed: a load from a location with only one of the two files,
\* or with files of different entry counts, does not succeed and leaves
\* the store with as many vectors as metadata records.
C5_LoadRejectsCorrupt ==
    (/\ out.op = "load"
     /\ \/ disk_index.exists # disk_meta.exists
        \/ /\ disk_index.exists
           /\ disk_meta.exists
           /\ disk_index.ntotal # Len(disk_meta.recs))
    => /\ out.ret # "true"
       /\ Len(Store.index) = Len(Store.metadata)

\* C6: a load after a completed save, into the store whatever it holds by
\* then, succeeds and yields the store as it was saved: the same vectors
\* and the same metadata records, in the same order.
C6_RoundTrip ==
    (out.op = "load" /\ saved.valid)
    => /\ out.ret = "true"
       /\ Store = saved.store

\* C6's case: a store of two different vectors was saved, then replaced by
\* other calls, and loaded back
C6_Witness ==
    /\ out.op = "load"
    /\ saved.valid
    /\ Len(Store.index) = 2
    /\ Store.index[1] # Store.index[2]
    /\ since_clear = "load"

C9_EmptySearch ==
    (out.op = "search" /\ Len(Store.index) = 0)
    => /\ out.ret = "ok"
       /\ out.results = <<>>
       /\ out.calls = 0

\* C9's case: a search with the default k on an empty store
C9_Witness ==
    /\ out.op = "search"
    /\ Len(Store.index) = 0
    /\ out.karg.isNone

\* what holds of a store that was cleared and not refilled
ClearedStore ==
    /\ Len(Store.index) = 0
    /\ Len(Store.metadata) = 0
    /\ out.op = "search" => (out.ret = "ok" /\ out.results = <<>>)

\* C10 as claimed: from a clear until the next add_documents call that adds
\* a chunk, both counts are zero and every search returns empty.
C10_EmptyUntilAdd ==
    since_clear \in {"clear", "load"} => ClearedStore

\* C10 as amended: from a clear until the next add_documents call that adds
\* a chunk or the next load that succeeds, both counts are zero and every
\* search returns empty; and the i-th chunk of the first add_documents call
\* after the clear sits at position i - 1.
C10_EmptyUntilAddOrLoad ==
    /\ [](since_clear = "clear" => ClearedStore)
    /\ [][(since_clear = "clear" /\ out'.op = "add" /\ out'.ret = "ok")
          => /\ Len(Store'.index) = Len(Store'.metadata)
             /\ Len(Store'.index) > 0
             /\ \A i \in 1..Len(Store'.metadata) :
                  Store'.metadata[i].chunk_id = i - 1]_vars

\* C10's case: a search on a store cleared after its entries were saved
C10_Witness ==
    /\ since_clear = "clear"
    /\ out.op = "search"
    /\ saved.valid
    /\ Len(saved.store.index) > 0

\* the metadata records of the chunks of the documents of a request
RECURSIVE ChunksOfRequest(_)
ChunksOfRequest(files) ==
    IF files = <<>> THEN <<>>
    ELSE MetaAppendAll(<<>>, DocChunks(Head(files)), Head(files))
         \o ChunksOfRequest(Tail(files))

\* C2: when an ingest request answers success, the store holds exactly the
\* chunks of the documents of that request, one vector for each, and no
\* entry of an earlier ingestion or of the start-up load.
C2_FullReplacement ==
    (resp.route = "ingest" /\ resp.status = 200)
        => /\ Store.metadata = ChunksOfRequest(resp.files)
           /\ Len(Store.index) = Len(Store.metadata)

\* the ingestion is between the first change it makes to store o and the
\* last: the store is emptied or holds only a part of the new documents
Building(o) == i_pc \in {"add", "meta"} /\ o = vector_store

\* C3: every step of a query that reads the store reads a store that no
\* ingestion is in the middle of building (neither emptied nor partly
\* filled), and the store the search finds is the one the emptiness check
\* saw: it is not empty.
C3_ConsistentView ==
    [][ /\ (RagCheck \/ RagSearchEnter) => ~Building(vector_store)
        /\ (RagSearchIndex \/ RagCollect) => ~Building(q_self)
        /\ RagSearchEnter => Len(Store.index) > 0 ]_vars

\* C4: while add_documents is between index.add and its last metadata
\* append, a stats call still reports as many vectors as metadata records,
\* and a search that found its hits has a result for every hit.
C4_AtomicAppend ==
    /\ (i_pc = "meta") =>
           StatsResponse.total_vectors = StatsResponse.total_chunks
    /\ (q_pc = "generate") => Len(q_docs) = Len(q_hits)

\* C8 (as stated): a non-empty query handled while the store has zero
\* entries is answered no_documents with no sources, and the handler sends
\* no request to an external service.
C8_NoExternalCall ==
    [][ ((ChatReceive \/ RagCheck) /\ Len(Store.index) = 0
            /\ q_pc' = "idle" /\ resp'.status # 400)
        => (resp'.error = "no_documents" /\ resp'.sources = <<>>
            /\ resp'.calls = NoCalls) ]_vars

\* C8 (amended): perform_rag on a store with zero entries returns the
\* no_documents result with no sources and sends no request; the chat
\* handler has sent exactly one request before it, the health check, and
\* when that check fails it answers 503 without calling perform_rag.
C8_NoCallAfterHealthCheck ==
    /\ [][ (RagCheck /\ Len(Store.index) = 0)
           => (/\ q_pc' = "idle"
               /\ resp'.status = 200
               /\ resp'.error = "no_documents"
               /\ resp'.sources = <<>>
               /\ resp'.calls = q_calls
               /\ q_calls = [NoCalls EXCEPT !.health = 1]) ]_vars
    /\ [][ (ChatReceive /\ q_pc' = "idle" /\ resp'.status # 400)
           => (/\ resp'.status = 503
               /\ resp'.calls = [NoCalls EXCEPT !.health = 1]) ]_vars

\* a query was answered no_documents after its health check
C8_Witness ==
    /\ resp.route = "chat"
    /\ resp.error = "no_documents"
    /\ resp.calls = [NoCalls EXCEPT !.health = 1]
    /\ Len(Store.index) = 0

\* C11: when the embedding call of some text of an add_documents call
\* fails, the call still succeeds: the store grows by one vector and one
\* metadata record per chunk, in order, and the vector of each failed text
\* is the zero vector of the store dimension.
C11_FailureBecomesZero ==
    [][ (/\ out'.op = "add"
         /\ \E i \in 1..Len(out'.resps) : ~out'.resps[i].ok)
        => (/\ out'.ret = "ok"
            /\ Len(Store'.index) = Len(Store.index) + Len(out'.chunks)
            /\ Len(Store'.metadata) = Len(Store.metadata) + Len(out'.chunks)
            /\ \A i \in 1..Len(out'.resps) :
                 ~out'.resps[i].ok =>
                     Store'.index[Len(Store.index) + i] = Zeros(Dimension))
      ]_vars

\* C12: every stored vector has exactly Dimension components, and an
\* add_documents call for which the backend returned only vectors shorter
\* than the dimension, or only vectors longer, succeeds with one stored
\* vector per chunk.
C12_StoredDimension ==
    /\ \A i \in 1..Len(Store.index) : Store.index[i].n = Dimension
    /\ (/\ out.op = "add"
        /\ out.chunks # <<>>
        /\ \/ \A i \in 1..Len(out.resps) :
                out.resps[i].ok /\ out.resps[i].n < Dimension
           \/ \A i \in 1..Len(out.resps) :
                out.resps[i].ok /\ out.resps[i].n > Dimension)
       => (/\ out.ret = "ok"
           /\ Len(Store.index) >= Len(out.chunks)
           /\ Len(Store.index) = Len(Store.metadata))

\* C13: an add_documents call for which the backend returned a zero-length
\* vector fails and changes neither the index nor the metadata.
C13_ZeroLengthRejected ==
    [][ (/\ out'.op = "add"
         /\ \E i \in 1..Len(out'.resps) :
              out'.resps[i].ok /\ out'.resps[i].n = 0)
        => (out'.ret = "raise" /\ Store' = Store) ]_vars

\* C18: a query whose generation call timed out or could not reach the
\* service is never answered with a successful result whose answer text is
\* the error message.
C18_GenerationFailureIsError ==
    (resp.route = "chat" /\ resp.status = 200 /\ resp.error = "")
        => resp.answer \notin {Generate("timeout"), Generate("unreachable")}

\* C19: with requests handled one at a time and K = RETRIEVAL_TOP_K >= 1,
\* a query on a store that holds at least one vector is never answered
\* with reason code no_results.
C19_NoResultsOnlyForZeroK ==
    [][ (/\ resp'.route = "chat"
         /\ resp'.error = "no_results"
         /\ RETRIEVAL_TOP_K >= 1)
        => Len(Store.index) = 0 ]_vars

\* a document of an ingest request whose extraction fails or that yields
\* no chunk
FailingDoc(name) == ~Readable(name) \/ DocChunks(name) = <<>>

\* C20: a failing document does not abort an ingest request with several
\* documents: when another document of the request is good the request
\* succeeds, after a success the chunks of every good document of the
\* request are in the store, and the response has a warning naming every
\* failing document.
C20_FailingDocIsWarning ==
    /\ (resp.route = "ingest" /\ resp.status = 400)
           => \A i \in 1..Len(resp.request) : FailingDoc(resp.request[i])
    /\ (resp.route = "ingest" /\ resp.status = 200
            /\ Len(resp.request) >= 2)
           => \A i \in 1..Len(resp.request) :
                LET name == resp.request[i]
                IN  IF FailingDoc(name)
                    THEN InSeq(name, resp.warnings)
                    ELSE \A c \in 1..Len(DocChunks(name)) :
                           \E m \in 1..Len(Store.metadata) :
                             Store.metadata[m] =
                                 MetaRecord(DocChunks(name)[c], name, c)

\* the sentences of the text of the last chunker call, trimmed, without
\* the blank ones
RECURSIVE NonBlank(_)
NonBlank(strs) ==
    IF strs = <<>> THEN <<>>
    ELSE (IF Strip(Head(strs)) = <<>> THEN <<>> ELSE <<Strip(Head(strs))>>)
         \o NonBlank(Tail(strs))
ChunkedSentences == NonBlank(SplitSentences(chunked.text))

\* str occurs in chunk as a run of consecutive characters
Contains(chunk, str) ==
    \E from \in 1..(Len(chunk) - Len(str) + 1) :
      SubSeq(chunk, from, from + Len(str) - 1) = str

\* C14: no chunk is longer than max_chars, unless it is a single sentence
\* of the text that is itself longer than max_chars.
C14_ChunkWithinMax ==
    chunked.called =>
      \A c \in 1..Len(chunked.chunks) :
        \/ Len(chunked.chunks[c]) <= chunked.max_tokens * 4
        \/ \E i \in 1..Len(ChunkedSentences) :
             /\ ChunkedSentences[i] = chunked.chunks[c]
             /\ Len(ChunkedSentences[i]) > chunked.max_tokens * 4

\* the sentences from the i-th on occur whole, in order, in the chunks
\* from the c-th on
RECURSIVE CoveredFrom(_, _, _, _)
CoveredFrom(sentences, i, chunks, c) ==
    IF i > Len(sentences) THEN TRUE
    ELSE LET at == {d \in c..Len(chunks) : Contains(chunks[d], sentences[i])}
         IN  /\ at # {}
             /\ CoveredFrom(sentences, i + 1, chunks,
                            CHOOSE d \in at : \A e \in at : d <= e)

\* C15: every sentence of the text occurs whole in at least one chunk, and
\* the sentences occur across the chunk list in their order in the text.
C15_ChunkCoverage ==
    chunked.called => CoveredFrom(ChunkedSentences, 1, chunked.chunks, 1)

\* C15's case: a text of three sentences was cut into several chunks
C15_Witness ==
    /\ chunked.called
    /\ Len(ChunkedSentences) >= 3
    /\ Len(chunked.chunks) >= 2

\* the last k elements of a sequence
Suffix(seq, k) == SubSeq(seq, Len(seq) - k + 1, Len(seq))
\* the first k elements of a sequence
Prefix(seq, k) == SubSeq(seq, 1, k)

\* C16: when a chunk of more than 10 words is followed by another chunk,
\* the later chunk starts with the last k >= 1 words of the earlier one,
\* followed by the words of the sentence that comes next in the text after
\* the sentence the earlier chunk ends with.
C16_OverlapIsSuffix ==
    chunked.called =>
      \A c \in 1..(Len(chunked.chunks) - 1) :
        LET earlier == SplitWords(chunked.chunks[c])
            later == SplitWords(chunked.chunks[c + 1])
            sentences == SplitSentences(chunked.text)
        IN  Len(earlier) > 10 =>
              \E k \in 1..Len(earlier), j \in 2..Len(sentences) :
                LET last == SplitWords(sentences[j - 1])
                    next == SplitWords(sentences[j])
                IN  /\ Len(last) <= Len(earlier)
                    /\ Suffix(earlier, Len(last)) = last
                    /\ k + Len(next) <= Len(later)
                    /\ Prefix(later, k) = Suffix(earlier, k)
                    /\ SubSeq(later, k + 1, k + Len(next)) = next

\* C16's case: a chunk of more than 10 words is followed by a chunk that
\* holds fewer words of it than it has
C16_Witness ==
    /\ chunked.called
    /\ \E c \in 1..(Len(chunked.chunks) - 1) :
         /\ Len(SplitWords(chunked.chunks[c])) > 10
         /\ Len(SplitWords(chunked.chunks[c + 1])) <= 10

\* C17: a text that is empty or holds only spaces yields no chunk, and no
\* chunk of any text is empty after trimming.
C17_NoEmptyChunk ==
    chunked.called =>
      /\ Strip(chunked.text) = <<>> => chunked.chunks = <<>>
      /\ \A c \in 1..Len(chunked.chunks) : Strip(chunked.chunks[c]) # <<>>

\* C17's case: a blank text was chunked, and a text ending in spaces
C17_Witness ==
    /\ chunked.called
    /\ chunked.text # <<>>
    /\ \/ Strip(chunked.text) = <<>>
       \/ IsSpace(chunked.text[Len(chunked.text)])

\* the metadata records of one source, in list order
RecordsOf(metadata, source) ==
    SelectSeq(metadata, LAMBDA r : r.source = source)

\* C21: within each source the chunk_ids of the metadata records are
\* 0..n-1 in insertion order, so no two records of a source share one.
C21_ChunkIdPerSource ==
    \A source \in Sources :
      LET recs == RecordsOf(Store.metadata, source)
      IN  \A i \in 1..Len(recs) : recs[i].chunk_id = i - 1

\* C24: add_documents leaves the vector and the record at every existing
\* position as they were, a completed call places one new entry per chunk
\* after them, and a call with an empty chunk list changes nothing.
C24_AppendOnly ==
    [][out'.op = "add" =>
         /\ Len(Store'.index) >= Len(Store.index)
         /\ Len(Store'.metadata) >= Len(Store.metadata)
         /\ SubSeq(Store'.index, 1, Len(Store.index)) = Store.index
         /\ SubSeq(Store'.metadata, 1, Len(Store.metadata)) = Store.metadata
         /\ out'.ret = "ok" =>
              /\ Len(Store'.index) = Len(Store.index) + Len(out'.chunks)
              /\ Len(Store'.metadata) =
                   Len(Store.metadata) + Len(out'.chunks)
         /\ out'.chunks = <<>> => Store' = Store]_vars

\* C24's case: a completed add_documents on a store that held entries
C24_Witness ==
    /\ out.op = "add"
    /\ out.ret = "ok"
    /\ Len(Store.index) > Len(out.chunks)

\* chunk c + 1 starts with the last k words of chunk c, for some k of at
\* most n (k = 0 when chunk c has 10 words or fewer), followed by the words
\* of the sentence that comes next in the text
TailWithin(c, n) ==
    LET earlier == SplitWords(chunked.chunks[c])
        later == SplitWords(chunked.chunks[c + 1])
        sentences == SplitSentences(chunked.text)
    IN  \E k \in 0..Min(n, Len(earlier)), j \in 2..Len(sentences) :
          LET last == SplitWords(sentences[j - 1])
              next == SplitWords(sentences[j])
          IN  /\ Len(earlier) <= 10 => k = 0
              /\ Len(last) <= Len(earlier)
              /\ Suffix(earlier, Len(last)) = last
              /\ k + Len(next) <= Len(later)
              /\ Prefix(later, k) = Suffix(earlier, k)
              /\ SubSeq(later, k + 1, k + Len(next)) = next

\* C23: the overlap tail that seeds the next chunk holds at most
\* floor(overlap_chars / 5) words from the end of the closed chunk, and none
\* when the closed chunk has 10 words or fewer; with an overlap budget
\* below 5 characters the tail is empty.
C23_OverlapTailBound ==
    chunked.called =>
      \A c \in 1..(Len(chunked.chunks) - 1) :
        TailWithin(c, (chunked.chunk_overlap * 4) \div 5)

\* C25: within one ingestion the record of a chunk is appended at the
\* position its vector was stored at, so when the ingestion has succeeded
\* the metadata at every position p describes the chunk whose embedding is
\* the vector at p.
C25_PositionsAligned ==
    /\ i_pc = "meta" =>
         LET p == Len(Store.metadata) + 1
             chunk == DocChunks(i_results[i_doc])[i_next]
         IN  /\ p <= Len(Store.index)
             /\ Store.index[p].x = Code(chunk)
    /\ (resp.route = "ingest" /\ resp.status = 200) =>
         /\ Len(Store.index) = Len(Store.metadata)
         /\ \A p \in 1..Len(Store.index) :
              Store.index[p].x = Code(Store.metadata[p].text)

\* C26: a query answered from at least one search result made exactly one
\* embedding call and exactly one generation call, the embedding call and
\* the search came before the generation call, and the answer is the text
\* the service generated, trimmed of surrounding white space.
C26_OneCallEachTrimmed ==
    /\ q_pc = "generate" =>
         (q_calls.embed = 1 /\ q_calls.generate = 0 /\ q_docs # <<>>)
    /\ (resp.route = "chat" /\ resp.status = 200 /\ resp.error = "") =>
         /\ resp.calls.embed = 1
         /\ resp.calls.generate = 1
         /\ resp.sources # <<>>
         /\ resp.answer \in
              {StripText(ResponseText(o)) : o \in {"text", "padded"}}

\* the store the saved files hold: what load() reads, or an empty store
\* when nothing was saved
Persisted == Load(NewStore, disk_index, disk_meta)

\* C27: an ingest request that ends with an error response leaves the
\* store that queries run against as it was (the step that sends the error
\* response changes no entry), and that store still matches the saved one.
C27_FailedIngestChangesNothing ==
    [][(resp'.route = "ingest" /\ resp'.status \in {400, 500}) =>
         /\ Store' = Store
         /\ Store' = Persisted']_vars

\* C22: the history that is formatted and sent to the model never holds
\* more than 2 * MAX_HISTORY messages.
C22_PromptWithinMaxHistory ==
    Len(MessagesOf(chat_text)) <= 2 * MAX_HISTORY

\* C22's case: a prompt was formatted from a history that had been cut
\* (only a cut history starts with a reply of the model)
C22_Witness ==
    /\ Len(MessagesOf(chat_text)) = 2 * MAX_HISTORY
    /\ chat_text[1].turn = "model"

\* C28: the conversation history starts with a user message and alternates
\* user and assistant messages, and the prompt never has two consecutive
\* turns of the same role.
C28_HistoryAlternates ==
    /\ conversation_history # <<>> => conversation_history[1].role = "user"
    /\ \A i \in 1..(Len(conversation_history) - 1) :
         conversation_history[i].role # conversation_history[i + 1].role
    /\ \A i \in 1..(Len(chat_text) - 1) :
         chat_text[i].turn # chat_text[i + 1].turn

====
